---- MODULE Spec2Model ----
(***************************************************************************)
(* Dirichlet calibration: DiagonalDirichletCalibrator, DirichletCalibrator *)
(* (src/__init__.py) and FullDirichletCalibrator                           *)
(* (src/calib/fulldirichlet.py), with the objective, the gradient and the  *)
(* softmax of src/__init__.py.                                             *)
(*                                                                         *)
(* Numbers.  A score is a probability on the grid {0, 1/4, 1/2, 1}, held   *)
(* as the number of quarters.  A clipped score is <<q, e>> = q/4 + e*eps.  *)
(* A feature is [a, d, c] = a*ln 2 + d*ln(1 - eps) + c: a logarithm of a   *)
(* clipped score, or the bias feature 1.  Weights are integers, the bias   *)
(* row of a weight matrix counting units of ln 2, so that a logit is       *)
(* [a, d, 0] = a*ln 2 + d*ln(1 - eps) and every softmax is exact.  A       *)
(* rational is <<numerator, denominator>>, in lowest terms.                *)
(***************************************************************************)
EXTENDS Integers, Sequences, FiniteSets, TLC

VARIABLES
    cls,          \* the class of the calibrator instance
    ctor,         \* the constructor's arguments
    weights_,     \* self.weights_
    coef_,        \* self.coef_       (DiagonalDirichletCalibrator)
    intercept_,   \* self.intercept_  (DiagonalDirichletCalibrator)
    calibrator_,  \* self.calibrator_
    l2,           \* self.l2          (FullDirichletCalibrator)
    call,         \* the last call on the instance, its argument and result
    fresh,        \* after fit: what a fresh instance holds after that fit alone
    pre,          \* the preprocessing passes applied to one array
    g             \* one call of _grad

vars == <<cls, ctor, weights_, coef_, intercept_, calibrator_, l2, call,
          fresh, pre, g>>

(***************************************************************************)
(* Bounds of the model.                                                    *)
(***************************************************************************)
MaxN == 3
MaxK == 3

(***************************************************************************)
(* Numbers.                                                                *)
(***************************************************************************)
\* float64: eps = 2^-52
EpsBits == 52

ScoreVals == {0, 1, 2, 4}

\* the scores p with 1-p on the grid
BinaryScoreVals == {0, 2, 4}

\* the scores that clipping leaves alone
InteriorScoreVals == {1, 2}

Real(h) == <<h, 0>>

eps == <<0, 1>>

One == <<4, 0>>

Minus(x, y) == <<x[1] - y[1], x[2] - y[2]>>

Lt(x, y) == x[1] < y[1] \/ (x[1] = y[1] /\ x[2] < y[2])

\* np.clip(x, lo, hi) = minimum(maximum(x, lo), hi)
clip(x, lo, hi) == IF Lt(x, lo) THEN lo ELSE IF Lt(hi, x) THEN hi ELSE x

\* np.log on the values a clipped or unclipped score takes
log(x) ==
    CASE x = eps             -> [a |-> -EpsBits, d |-> 0, c |-> 0]
      [] x = <<1, 0>>        -> [a |-> -2, d |-> 0, c |-> 0]
      [] x = <<2, 0>>        -> [a |-> -1, d |-> 0, c |-> 0]
      [] x = Minus(One, eps) -> [a |-> 0, d |-> 1, c |-> 0]
      [] x = One             -> [a |-> 0, d |-> 0, c |-> 0]
      [] OTHER               -> [a |-> -1000000, d |-> 0, c |-> 0]

\* the entry of np.ones
BiasOne == [a |-> 0, d |-> 0, c |-> 1]

(***************************************************************************)
(* Arrays: [ndim, data]; a 1-D array holds a sequence of entries, a 2-D    *)
(* array a sequence of rows.  A result is [raised, val].                   *)
(***************************************************************************)
NoArr == [ndim |-> 0, data |-> <<>>]

Ok(v) == [raised |-> "none", val |-> v]

Raise(e) == [raised |-> e, val |-> NoArr]

Arr1(s) == [ndim |-> 1, data |-> s]

Arr2(rows) == [ndim |-> 2, data |-> rows]

NRows(A) == Len(A.data)

NCols(A) == IF A.ndim = 2 /\ Len(A.data) > 0 THEN Len(A.data[1]) ELSE 0

SameArr(A, B) == A.ndim = B.ndim /\ A.data = B.data

SameResult(r, s) == r.raised = s.raised /\ SameArr(r.val, s.val)

Seqs(S, lo, hi) == UNION {[1..n -> S] : n \in lo..hi}

RECURSIVE SumSeq(_)
SumSeq(s) == IF s = <<>> THEN 0 ELSE s[1] + SumSeq(Tail(s))

\* the score rows over k classes that sum to 1
Rows(k) == {r \in [1..k -> ScoreVals] : SumSeq(r) = 4}

Arrays1(maxn) == {Arr1(s) : s \in Seqs(BinaryScoreVals, 1, maxn)}

Arrays2(k, maxn) == {Arr2(rows) : rows \in Seqs(Rows(k), 1, maxn)}

(***************************************************************************)
(* The log-probability preprocessing of each class, at fit time and at     *)
(* predict time.                                                           *)
(***************************************************************************)
\* np.log(np.clip(X, eps, 1-eps)), element-wise
LogClip(A) ==
    LET f(v) == log(clip(Real(v), eps, Minus(One, eps)))
    IN  IF A.ndim = 1
        THEN Arr1([i \in DOMAIN A.data |-> f(A.data[i])])
        ELSE Arr2([i \in DOMAIN A.data |->
                      [j \in DOMAIN A.data[i] |-> f(A.data[i][j])]])

\* np.hstack((A, np.ones((len(A), 1))))
hstack_ones(A) ==
    IF A.ndim = 2
    THEN Ok(Arr2([i \in DOMAIN A.data |-> Append(A.data[i], BiasOne)]))
    ELSE Raise("ValueError")

\* np.vstack(((1-A), A)).T when A is 1-D
Expand(A) ==
    IF A.ndim = 1
    THEN Arr2([i \in DOMAIN A.data |-> <<4 - A.data[i], A.data[i]>>])
    ELSE A

DiagPredictPreNoUpperClip(S) ==
    LET f(v) == log(clip(Real(v), eps, One))
    IN  IF S.ndim = 1 THEN Raise("ValueError")
        ELSE Ok(Arr2([i \in DOMAIN S.data |->
                 Append([j \in DOMAIN S.data[i] |-> f(S.data[i][j])],
                        BiasOne)]))

DiagFitPre(X) == hstack_ones(LogClip(X))

DiagPredictPre(S) == hstack_ones(LogClip(S))

DirFitPre(X) == Ok(LogClip(X))

DirPredictProbaPre(S) == Ok(LogClip(S))

DirPredictPre(S) == Ok(LogClip(S))

\* utils.clip_for_log followed by np.log
LogClipForLog(A) == LogClip(A)

FullFitPre(X) == Ok(LogClipForLog(X))

FullValPre(X_val) == Ok(LogClipForLog(Expand(X_val)))

FullPredictProbaPre(S) == Ok(LogClipForLog(S))

FullPredictPre(S) == Ok(LogClipForLog(S))

Classes == {"Diagonal", "Dirichlet", "Full"}

FitPre(c, X) ==
    CASE c = "Diagonal"  -> DiagFitPre(X)
      [] c = "Dirichlet" -> DirFitPre(X)
      [] c = "Full"      -> FullFitPre(X)

PredictProbaPre(c, S) ==
    CASE c = "Diagonal"  -> DiagPredictPre(S)
      [] c = "Dirichlet" -> DirPredictProbaPre(S)
      [] c = "Full"      -> FullPredictProbaPre(S)

PredictPre(c, S) ==
    CASE c = "Diagonal"  -> DiagPredictPre(S)
      [] c = "Dirichlet" -> DirPredictPre(S)
      [] c = "Full"      -> FullPredictPre(S)

(***************************************************************************)
(* Rationals and matrices.                                                 *)
(***************************************************************************)
Abs(n) == IF n < 0 THEN -n ELSE n

RECURSIVE Gcd(_, _)
Gcd(m, n) == IF n = 0 THEN m ELSE Gcd(n, m % n)

Rat(n, d) ==
    LET h == Gcd(Abs(n), Abs(d))
    IN  IF d < 0 THEN <<(-n) \div h, (-d) \div h>> ELSE <<n \div h, d \div h>>

RAdd(x, y) == Rat(x[1] * y[2] + y[1] * x[2], x[2] * y[2])

RSub(x, y) == Rat(x[1] * y[2] - y[1] * x[2], x[2] * y[2])

RScale(n, x) == Rat(n * x[1], x[2])

RZero == <<0, 1>>

ROne == <<1, 1>>

RECURSIVE Pow2(_)
Pow2(n) == IF n <= 0 THEN 1 ELSE 2 * Pow2(n - 1)

\* the sum of f over the indices 1..n
RECURSIVE RSum(_, _)
RSum(f, n) == IF n = 0 THEN RZero ELSE RAdd(RSum(f, n - 1), f[n])

RECURSIVE ISum(_, _)
ISum(f, n) == IF n = 0 THEN 0 ELSE ISum(f, n - 1) + f[n]

\* a sum of features with rational coefficients, one rational per unit
GZero == [a |-> RZero, d |-> RZero, c |-> RZero]

\* the order of the logits [a, d, 0]: ln(1 - eps) is negative and tiny
LogitLt(x, y) == x.a < y.a \/ (x.a = y.a /\ x.d > y.d)

RECURSIVE RowMax(_, _)
RowMax(row, n) ==
    IF n = 1 THEN row[1]
    ELSE LET m == RowMax(row, n - 1)
         IN  IF LogitLt(m, row[n]) THEN row[n] ELSE m

\* params.reshape(-1, cols)
reshape(params, cols) ==
    IF Len(params) % cols /= 0
    THEN Raise("ValueError")
    ELSE Ok(Arr2([i \in 1..(Len(params) \div cols) |->
                     [j \in 1..cols |-> params[(i - 1) * cols + j]]]))

\* array.ravel() of a 2-D array, row-major
ravel(rows, cols) ==
    [t \in 1..(Len(rows) * cols) |->
        rows[((t - 1) \div cols) + 1][((t - 1) % cols) + 1]]

\* np.dot(X, weights): X holds features, weights integers
dot(X, W) ==
    IF NCols(X) /= NRows(W)
    THEN Raise("ValueError")
    ELSE Ok(Arr2([n \in DOMAIN X.data |->
            [j \in 1..NCols(W) |->
                [a |-> ISum([i \in 1..NRows(W) |->
                              W.data[i][j] * (X.data[n][i].a + X.data[n][i].c)],
                            NRows(W)),
                 d |-> ISum([i \in 1..NRows(W) |->
                              W.data[i][j] * X.data[n][i].d], NRows(W)),
                 c |-> 0]]]))

\* _softmax: shiftx = X - max(X, axis=1); exps = exp(shiftx); exps / sum(exps).
\* A row of probabilities is held as its row of shifted logits, of which the
\* largest is 0: entry j stands for exp(shiftx[j]) / sum(exp(shiftx)).
_softmax(X) ==
    Arr2([n \in DOMAIN X.data |->
        LET m == RowMax(X.data[n], Len(X.data[n]))
        IN  [j \in DOMAIN X.data[n] |->
                [a |-> X.data[n][j].a - m.a, d |-> X.data[n][j].d - m.d,
                 c |-> 0]]])

\* the probability a row of _softmax holds for class j (rows without a
\* ln(1 - eps) part): 2^shiftx[j] / sum_l 2^shiftx[l]
Prob(row, j) ==
    LET lo == CHOOSE v \in {row[l].a : l \in DOMAIN row} :
                  \A l \in DOMAIN row : v <= row[l].a
    IN  Rat(Pow2(row[j].a - lo),
            ISum([l \in DOMAIN row |-> Pow2(row[l].a - lo)], Len(row)))

\* _calculate_outputs(weights, X)
_calculate_outputs(weights, X) ==
    LET k   == NRows(weights) - 1
        prod == dot(X, weights)
    IN  IF k < 0 \/ prod.raised /= "none"
        THEN Raise("ValueError")
        ELSE IF NCols(prod.val) /= k - 1 /\ NCols(prod.val) /= 1
        THEN Raise("ValueError")
        ELSE Ok(_softmax(Arr2([n \in DOMAIN X.data |->
                 [j \in 1..k |->
                    IF j <= k - 1
                    THEN prod.val.data[n][IF NCols(prod.val) = 1 THEN 1 ELSE j]
                    ELSE [a |-> 0, d |-> 0, c |-> 0]]])))

\* label_binarize(y, range(k)): one column when k = 2
label_binarize(y, k) ==
    Arr2([n \in DOMAIN y |->
        IF k = 2 THEN <<IF y[n] = 1 THEN 1 ELSE 0>>
        ELSE [j \in 1..k |-> IF y[n] = j - 1 THEN 1 ELSE 0]])

\* np.argmax(y, axis=1), as a 0-based column
argmax_row(row) ==
    (CHOOSE j \in DOMAIN row :
        /\ \A l \in DOMAIN row : row[l] <= row[j]
        /\ \A l \in DOMAIN row : l < j => row[l] < row[j]) - 1

\* _objective(params, X, y); log_loss is sklearn's, held by its arguments
_objective(params, X, y) ==
    LET weights == reshape(params, 2)
        outputs == _calculate_outputs(weights.val, X)
    IN  IF weights.raised /= "none" THEN Raise("ValueError")
        ELSE IF outputs.raised /= "none" THEN Raise("ValueError")
        ELSE IF NRows(y) /= NRows(outputs.val) THEN Raise("ValueError")
        ELSE Ok([ndim |-> 0, data |-> <<"log_loss", y.data, outputs.val.data>>])

\* _grad(params, X, y): the raveled gradient, or the error raised
_grad(params, X, y) ==
    LET weights == reshape(params, 2)
        outputs == _calculate_outputs(weights.val, X)
        k       == NRows(weights.val) - 1
        s(n)    == Prob(outputs.val.data[n], argmax_row(y.data[n]) + 1)
        sm1(n)  == RSub(s(n), ROne)
        N       == NRows(y)
        entry(i) ==
            [a |-> RSum([n \in 1..N |-> RScale(X.data[n][i].a, sm1(n))], N),
             d |-> RSum([n \in 1..N |-> RScale(X.data[n][i].d, sm1(n))], N),
             c |-> RSum([n \in 1..N |-> RScale(X.data[n][i].c, sm1(n))], N)]
    IN  IF weights.raised /= "none" THEN Raise("ValueError")
        ELSE IF outputs.raised /= "none" THEN Raise("ValueError")
        ELSE IF N > NRows(outputs.val) THEN Raise("IndexError")
        ELSE Ok(Arr1(ravel(
                 [i \in 1..(k + 1) |->
                    [j \in 1..2 |-> IF j <= k - 1 THEN entry(i) ELSE GZero]],
                 2)))

(***************************************************************************)
(* Idle values of the variables a specification does not use.              *)
(***************************************************************************)
None == <<>>

NoRet == [kind |-> "none", shape |-> <<>>, data |-> <<>>]

NoCall == [op |-> "none", arg |-> NoArr, raised |-> "none", feats |-> NoArr,
           ret |-> NoRet, aux |-> <<>>]

MainIdle ==
    /\ cls = "none"
    /\ ctor = None
    /\ weights_ = None
    /\ coef_ = None
    /\ intercept_ = None
    /\ calibrator_ = None
    /\ l2 = None
    /\ call = NoCall
    /\ fresh = None

mainvars == <<cls, ctor, weights_, coef_, intercept_, calibrator_, l2, call,
              fresh>>

PreIdle == pre = None

GradIdle == g = None

(***************************************************************************)
(* DiagonalDirichletCalibrator.                                            *)
(***************************************************************************)
\* the fields of an instance
Fields ==
    [weights_ |-> weights_, coef_ |-> coef_, intercept_ |-> intercept_,
     calibrator_ |-> calibrator_, l2 |-> l2]

NoL2 == [list |-> FALSE, v |-> <<>>]

\* np.random.rand is in [0, 1) and np.random.randn any real: the draws that
\* are integers
RandVals == {0}

RandnVals == {1}

\* weights_0 of fit, raveled: the diagonal from rand, the k-th row from
\* -rand, the bias row from randn
weights_0(k, r1, r2, rn) ==
    ravel([i \in 1..(k + 1) |->
              [j \in 1..(k - 1) |->
                  IF i = k + 1 THEN rn[j]
                  ELSE IF i = k THEN r2[j] * (-1)
                  ELSE IF i = j THEN r1[j]
                  ELSE 0]],
          k - 1)

k_ravel_ind_BiasRow(k) == {k * (k - 1) + j : j \in 0..(k - 2)}

\* np.ravel_multi_index(np.diag_indices(k-1), (k+1, k-1))
diag_ravel_ind(k) == {i * (k - 1) + i : i \in 0..(k - 2)}

\* np.ravel_multi_index([ones(k-1)*(k-1), arange(k-1)], (k+1, k-1))
k_ravel_ind(k) == {(k - 1) * (k - 1) + j : j \in 0..(k - 2)}

\* np.ravel_multi_index([ones(k-1)*k, arange(k-1)], (k+1, k-1))
intercept_ravel_ind(k) == {k * (k - 1) + j : j \in 0..(k - 2)}

\* the bounds of fit, one <<lower, upper>> per entry of weights_0
bounds(k, n) ==
    [t \in 1..n |->
        LET ind == t - 1
        IN  IF ind \in diag_ravel_ind(k) THEN <<"0", "inf">>
            ELSE IF ind \in k_ravel_ind(k) THEN <<"-inf", "0">>
            ELSE IF ind \in intercept_ravel_ind(k) THEN <<"-inf", "inf">>
            ELSE <<"0", "0">>]

\* the point fmin_l_bfgs_b returns: each entry a value of SolVals projected
\* onto its bound
SolVals == {-1, 1}

Project(v, b) ==
    IF b[1] = "0" /\ v < 0 THEN 0
    ELSE IF b[2] = "0" /\ v > 0 THEN 0
    ELSE v

Allowed(b) == {Project(v, b) : v \in SolVals}

RECURSIVE Box(_)
Box(bs) ==
    IF bs = <<>> THEN {<<>>}
    ELSE {<<v>> \o p : v \in Allowed(Head(bs)), p \in Box(Tail(bs))}

transpose(rows, cols) ==
    [j \in 1..cols |-> [i \in 1..Len(rows) |-> rows[i][j]]]

coef_NoTranspose(weights) ==
    [i \in 1..(Len(weights) - 1) |-> weights[i]]

\* weights_.transpose()[:, :-1]
coef_of(weights) ==
    LET t == transpose(weights, Len(weights[1]))
    IN  [j \in DOMAIN t |-> SubSeq(t[j], 1, Len(t[j]) - 1)]

\* weights_.transpose()[:, -1]
intercept_of(weights) ==
    LET t == transpose(weights, Len(weights[1]))
    IN  [j \in DOMAIN t |-> t[j][Len(t[j])]]

FitCall(X, raised, feats, aux) ==
    [op |-> "fit", arg |-> X, raised |-> raised, feats |-> feats,
     ret |-> NoRet, aux |-> aux]

\* DiagonalDirichletCalibrator.fit up to the solver: the arguments it hands
\* to fmin_l_bfgs_b and what the solver's first calls of _objective and _grad
\* raise
DiagSolve(X, y, r1, r2, rn) ==
    LET X_     == DiagFitPre(X)
        k      == Cardinality({y[n] : n \in DOMAIN y})
        target == label_binarize(y, k)
        w0     == weights_0(k, r1, r2, rn)
        obj    == _objective(w0, X_.val, target)
        grd    == _grad(w0, X_.val, target)
        shape  == IF reshape(w0, 2).raised /= "none" THEN <<>>
                  ELSE <<NRows(reshape(w0, 2).val), 2>>
    IN  IF X_.raised /= "none"
        THEN [raised |-> X_.raised, feats |-> NoArr,
              aux |-> [k |-> 0, n0 |-> 0, bounds |-> <<>>, invoked |-> FALSE,
                       wshape |-> <<>>]]
        ELSE [raised |-> IF obj.raised /= "none" THEN obj.raised
                         ELSE grd.raised,
              feats |-> X_.val,
              aux |-> [k |-> k, n0 |-> Len(w0), bounds |-> bounds(k, Len(w0)),
                       invoked |-> TRUE, wshape |-> shape]]

\* DiagonalDirichletCalibrator.fit after s = DiagSolve(...), the solver
\* returning the point sol
DiagFit(F, X, s, sol) ==
    LET W == reshape(sol, s.aux.k - 1).val.data
    IN  IF s.raised /= "none"
        THEN [F |-> F, call |-> FitCall(X, s.raised, s.feats, s.aux)]
        ELSE [F |-> [F EXCEPT !.weights_ = <<W>>,
                              !.coef_ = <<coef_of(W)>>,
                              !.intercept_ = <<intercept_of(W)>>],
              call |-> FitCall(X, "none", s.feats, s.aux)]

\* the probabilities a weight matrix gives the features S_
ProbaRet(W, S_) ==
    LET out == _calculate_outputs(W, S_)
    IN  IF out.raised /= "none"
        THEN [raised |-> out.raised, ret |-> NoRet]
        ELSE [raised |-> "none",
              ret |-> [kind |-> "proba",
                       shape |-> <<NRows(out.val), NCols(out.val)>>,
                       data |-> out.val.data]]

PredictCall(op, S, raised, feats, ret) ==
    [op |-> op, arg |-> S, raised |-> raised, feats |-> feats, ret |-> ret,
     aux |-> <<>>]

\* DiagonalDirichletCalibrator.predict_proba
DiagPredictProba(F, S) ==
    LET S_ == DiagPredictPre(S)
        r  == ProbaRet(Arr2(F.weights_[1]), S_.val)
    IN  IF S_.raised /= "none"
        THEN PredictCall("predict_proba", S, S_.raised, NoArr, NoRet)
        ELSE IF F.weights_ = None
        THEN PredictCall("predict_proba", S, "AttributeError", S_.val, NoRet)
        ELSE PredictCall("predict_proba", S, r.raised, S_.val, r.ret)

\* DiagonalDirichletCalibrator.predict
DiagPredict(F, S) == [DiagPredictProba(F, S) EXCEPT !.op = "predict"]

(***************************************************************************)
(* DirichletCalibrator.  calibrator_ is sklearn's LogisticRegression, held *)
(* as the weight matrix it was fitted to: one row per feature and a last   *)
(* row of intercepts, one column per class.                                *)
(***************************************************************************)
LRModels(m, k) ==
    {[m |-> m, k |-> k,
      W |-> [i \in 1..(m + 1) |->
                [j \in 1..k |->
                    IF i = m + 1 THEN b[j] ELSE IF i = j THEN t ELSE 0]]] :
        t \in {1, 2}, b \in {[j \in 1..k |-> IF j = c THEN 1 ELSE 0] : c \in 0..1}}

\* what LogisticRegression(...).fit(X, y) raises
LRFitRaises(X_, y) ==
    IF \/ X_.ndim /= 2
       \/ NRows(X_) /= Len(y)
       \/ Cardinality({y[n] : n \in DOMAIN y}) < 2
    THEN "ValueError" ELSE "none"

\* DirichletCalibrator.fit, LogisticRegression.fit returning model
DirFit(F, X, y, model) ==
    LET X_ == DirFitPre(X).val
        e  == LRFitRaises(X_, y)
    IN  IF e /= "none"
        THEN [F |-> F, call |-> FitCall(X, e, X_, <<>>)]
        ELSE [F |-> [F EXCEPT !.calibrator_ = <<model>>],
              call |-> FitCall(X, "none", X_, <<>>)]

\* the decision function of a fitted LogisticRegression: S . coef^T + intercept
LRDecision(model, S_) ==
    IF S_.ndim /= 2 \/ NCols(S_) /= model.m
    THEN Raise("ValueError")
    ELSE dot(hstack_ones(S_).val, Arr2(model.W))

\* LogisticRegression.predict_proba: the softmax of the decision function
LRPredictProba(model, S_) ==
    LET dec == LRDecision(model, S_)
        p   == _softmax(dec.val)
    IN  IF dec.raised /= "none"
        THEN [raised |-> dec.raised, ret |-> NoRet]
        ELSE [raised |-> "none",
              ret |-> [kind |-> "proba", shape |-> <<NRows(p), NCols(p)>>,
                       data |-> p.data]]

\* LogisticRegression.predict: the class of the largest decision value
LRPredict(model, S_) ==
    LET dec == LRDecision(model, S_)
        best(row) ==
            CHOOSE j \in DOMAIN row :
                /\ \A l \in DOMAIN row : ~LogitLt(row[j], row[l])
                /\ \A l \in DOMAIN row : l < j => LogitLt(row[l], row[j])
    IN  IF dec.raised /= "none"
        THEN [raised |-> dec.raised, ret |-> NoRet]
        ELSE [raised |-> "none",
              ret |-> [kind |-> "labels", shape |-> <<NRows(dec.val)>>,
                       data |-> [n \in DOMAIN dec.val.data |->
                                    best(dec.val.data[n]) - 1]]]

\* DirichletCalibrator.predict_proba
DirPredictProba(F, S) ==
    LET S_ == DirPredictProbaPre(S).val
        r  == LRPredictProba(F.calibrator_[1], S_)
    IN  IF F.calibrator_ = None
        THEN PredictCall("predict_proba", S, "AttributeError", S_, NoRet)
        ELSE PredictCall("predict_proba", S, r.raised, S_, r.ret)

\* DirichletCalibrator.predict
DirPredict(F, S) ==
    LET S_ == DirPredictPre(S).val
        r  == LRPredict(F.calibrator_[1], S_)
    IN  IF F.calibrator_ = None
        THEN PredictCall("predict", S, "AttributeError", S_, NoRet)
        ELSE PredictCall("predict", S, r.raised, S_, r.ret)

(***************************************************************************)
(* FullDirichletCalibrator.  calibrator_ is a MultinomialRegression, held  *)
(* as the arguments it was constructed and fitted with.                    *)
(***************************************************************************)
\* MultinomialRegression(method='Full', l2, comp_l2, weights_0).fit(X, y)
MRFit(l2v, comp_l2, w0, X_) ==
    IF X_.ndim /= 2
    THEN [raised |-> "ValueError", model |-> <<>>]
    ELSE [raised |-> "none",
          model |-> <<[l2 |-> l2v, comp_l2 |-> comp_l2, weights_0 |-> w0,
                       X |-> X_]>>]

\* MultinomialRegression.predict_proba
MRPredictProba(model, S_) ==
    IF S_.ndim /= 2 \/ NCols(S_) /= NCols(model.X)
    THEN [raised |-> "ValueError", ret |-> NoRet]
    ELSE [raised |-> "none",
          ret |-> [kind |-> "proba", shape |-> <<NRows(S_), NCols(S_)>>,
                   data |-> <<model, S_.data>>]]

\* MultinomialRegression.predict
MRPredict(model, S_) == MRPredictProba(model, S_)

argmin_Last(losses) ==
    CHOOSE i \in DOMAIN losses :
        /\ \A j \in DOMAIN losses : losses[i] <= losses[j]
        /\ \A j \in DOMAIN losses : j > i => losses[j] > losses[i]

\* np.argmin(losses), 1-based: the first index of the least loss
argmin(losses) ==
    CHOOSE i \in DOMAIN losses :
        /\ \A j \in DOMAIN losses : losses[i] <= losses[j]
        /\ \A j \in DOMAIN losses : j < i => losses[j] > losses[i]

\* FullDirichletCalibrator.fit; loss[v] is the validation log-loss of the
\* model fitted with l2 = v.  y and y_val pass unchanged to
\* MultinomialRegression.fit and to log_loss.
FullFit(F, comp_l2, X, X_val, loss) ==
    LET _X     == FullFitPre(X).val
        _X_val == FullValPre(X_val).val
        cands  == F.l2.v
        fit(v) == MRFit(v, comp_l2, F.weights_, _X)
        aux(e, n) == [list |-> F.l2.list, cands |-> cands,
                      fitted |-> [i \in 1..n |-> fit(cands[i]).model[1].l2],
                      losses |-> IF e = "none" /\ F.l2.list
                                 THEN [i \in 1..n |-> loss[cands[i]]]
                                 ELSE <<>>,
                      valfeats |-> IF F.l2.list THEN _X_val ELSE NoArr]
        raise(e, n) == [F |-> F, call |-> FitCall(X, e, _X, aux(e, n))]
    IN  IF F.l2.list
        THEN IF cands = <<>> THEN raise("ValueError", 0)
             ELSE IF fit(cands[1]).raised /= "none"
             THEN raise(fit(cands[1]).raised, 0)
             ELSE IF MRPredictProba(fit(cands[1]).model[1], _X_val).raised
                        /= "none"
             THEN raise("ValueError", 1)
             ELSE LET losses == [i \in 1..Len(cands) |-> loss[cands[i]]]
                      lower_loss_index == argmin(losses)
                  IN  [F |-> [F EXCEPT
                                !.calibrator_ =
                                    fit(cands[lower_loss_index]).model,
                                !.l2 = [list |-> FALSE,
                                        v |-> <<cands[lower_loss_index]>>]],
                       call |-> FitCall(X, "none", _X,
                                        aux("none", Len(cands)))]
        ELSE IF fit(cands[1]).raised /= "none"
             THEN raise(fit(cands[1]).raised, 0)
             ELSE [F |-> [F EXCEPT !.calibrator_ = fit(cands[1]).model],
                   call |-> FitCall(X, "none", _X, aux("none", 1))]

\* FullDirichletCalibrator.predict_proba
FullPredictProba(F, S) ==
    LET S_ == FullPredictProbaPre(S).val
        r  == MRPredictProba(F.calibrator_[1], S_)
    IN  IF F.calibrator_ = None
        THEN PredictCall("predict_proba", S, "AttributeError", S_, NoRet)
        ELSE PredictCall("predict_proba", S, r.raised, S_, r.ret)

\* FullDirichletCalibrator.predict
FullPredict(F, S) ==
    LET S_ == FullPredictPre(S).val
        r  == MRPredict(F.calibrator_[1], S_)
    IN  IF F.calibrator_ = None
        THEN PredictCall("predict", S, "AttributeError", S_, NoRet)
        ELSE PredictCall("predict", S, r.raised, S_, r.ret)

(***************************************************************************)
(* Spec: one calibrator instance and the calls made on it.                 *)
(***************************************************************************)
MaxPredN == 1

MaxL == 2

L2Vals == {0, 1}

LossVals == {0, 1}

\* the sorted score rows over k classes
SortedRows(k) ==
    {r \in Rows(k) : \A i \in 1..(k - 1) : r[i] >= r[i + 1]}

\* the training arrays, whose values reach only the collaborators: n scores
\* 1/2, or n rows that give the first class the score 1
FitArrays(n) ==
    {Arr1([i \in 1..n |-> 2])}
    \cup {Arr2([i \in 1..n |-> [j \in 1..k |-> IF j = 1 THEN 4 ELSE 0]]) :
              k \in 2..MaxK}

\* the arrays to predict on: n equal scores, or n equal rows
PredArrays ==
    {Arr1([i \in 1..n |-> v]) : v \in BinaryScoreVals, n \in 1..MaxPredN}
    \cup UNION {{Arr2([i \in 1..n |-> r]) :
                     r \in SortedRows(k), n \in 1..MaxPredN} : k \in 2..MaxK}

\* the label vectors: N labels of k >= 2 classes 0..k-1, sorted, the classes
\* after class 0 taken once
Labels ==
    UNION {{[n \in 1..N |-> IF n <= N - k + 1 THEN 0 ELSE n - (N - k + 1)] :
               k \in {c \in 2..MaxK : c <= N}} : N \in 2..MaxN}

CtorArgs ==
    {[l2 |-> [list |-> FALSE, v |-> <<x>>], comp_l2 |-> b,
      weights_init |-> None] : x \in L2Vals, b \in BOOLEAN}
    \cup {[l2 |-> [list |-> TRUE, v |-> c], comp_l2 |-> b,
           weights_init |-> None] : c \in Seqs(L2Vals, 0, MaxL), b \in BOOLEAN}

NoCtor == [l2 |-> NoL2, comp_l2 |-> FALSE, weights_init |-> None]

\* the fields as the constructor leaves them
CtorFields ==
    [weights_ |-> ctor.weights_init, coef_ |-> None, intercept_ |-> None,
     calibrator_ |-> None, l2 |-> ctor.l2]

Init ==
    /\ PreIdle
    /\ GradIdle
    /\ cls \in Classes
    /\ ctor \in (IF cls = "Full" THEN CtorArgs ELSE {NoCtor})
    /\ weights_ = ctor.weights_init
    /\ coef_ = None
    /\ intercept_ = None
    /\ calibrator_ = None
    /\ l2 = ctor.l2
    /\ call = NoCall
    /\ fresh = None

\* the fields and the call record after a call of fit
Fitted(r, f) ==
    /\ weights_' = r.F.weights_
    /\ coef_' = r.F.coef_
    /\ intercept_' = r.F.intercept_
    /\ calibrator_' = r.F.calibrator_
    /\ l2' = r.F.l2
    /\ call' = r.call
    /\ fresh' = <<f.F>>
    /\ UNCHANGED <<cls, ctor, pre, g>>

PredictedResettingIntercept(c) ==
    /\ call' = c
    /\ fresh' = None
    /\ intercept_' = None
    /\ UNCHANGED <<cls, ctor, weights_, coef_, calibrator_, l2, pre, g>>

\* a call of predict_proba or predict: no field of the instance is assigned
Predicted(c) ==
    /\ call' = c
    /\ fresh' = None
    /\ UNCHANGED <<cls, ctor, weights_, coef_, intercept_, calibrator_, l2,
                   pre, g>>

DiagonalFit ==
    /\ cls = "Diagonal"
    /\ \E y \in Labels :
       \E X \in FitArrays(Len(y)) :
       \E r1 \in [1..(Cardinality({y[n] : n \in DOMAIN y}) - 1) -> RandVals] :
       \E r2 \in [1..(Cardinality({y[n] : n \in DOMAIN y}) - 1) -> RandVals] :
       \E rn \in [1..(Cardinality({y[n] : n \in DOMAIN y}) - 1) -> RandnVals] :
       \E s \in {DiagSolve(X, y, r1, r2, rn)} :
       \E sol \in (IF s.raised /= "none" THEN {<<>>} ELSE Box(s.aux.bounds)) :
       \E r \in {<<DiagFit(Fields, X, s, sol),
                   DiagFit(CtorFields, X, s, sol)>>} :
          Fitted(r[1], r[2])

DiagonalPredictProba ==
    /\ cls = "Diagonal"
    /\ \E S \in PredArrays : Predicted(DiagPredictProba(Fields, S))

DiagonalPredict ==
    /\ cls = "Diagonal"
    /\ \E S \in PredArrays : Predicted(DiagPredict(Fields, S))

DirichletFit ==
    /\ cls = "Dirichlet"
    /\ \E y \in Labels :
       \E X \in FitArrays(Len(y)) :
       \E model \in (IF LRFitRaises(DirFitPre(X).val, y) /= "none" THEN {<<>>}
                     ELSE LRModels(NCols(X),
                                   Cardinality({y[n] : n \in DOMAIN y}))) :
       \E r \in {<<DirFit(Fields, X, y, model),
                   DirFit(CtorFields, X, y, model)>>} :
          Fitted(r[1], r[2])

DirichletPredictProba ==
    /\ cls = "Dirichlet"
    /\ \E S \in PredArrays : Predicted(DirPredictProba(Fields, S))

DirichletPredict ==
    /\ cls = "Dirichlet"
    /\ \E S \in PredArrays : Predicted(DirPredict(Fields, S))

FullDirichletFit ==
    /\ cls = "Full"
    /\ \E X \in FitArrays(1) :
       \E X_val \in (IF ctor.l2.list THEN FitArrays(1) ELSE {NoArr}) :
       \E loss \in [{ctor.l2.v[i] : i \in DOMAIN ctor.l2.v} -> LossVals] :
       \E r \in {<<FullFit(Fields, ctor.comp_l2, X, X_val, loss),
                   FullFit(CtorFields, ctor.comp_l2, X, X_val, loss)>>} :
          Fitted(r[1], r[2])

FullDirichletPredictProba ==
    /\ cls = "Full"
    /\ \E S \in PredArrays : Predicted(FullPredictProba(Fields, S))

FullDirichletPredict ==
    /\ cls = "Full"
    /\ \E S \in PredArrays : Predicted(FullPredict(Fields, S))

Next ==
    \/ DiagonalFit
    \/ DiagonalPredictProba
    \/ DiagonalPredict
    \/ DirichletFit
    \/ DirichletPredictProba
    \/ DirichletPredict
    \/ FullDirichletFit
    \/ FullDirichletPredictProba
    \/ FullDirichletPredict

Spec == Init /\ [][Next]_vars

(***************************************************************************)
(* The claims checked under Spec.                                          *)
(***************************************************************************)
\* C1: FullDirichletCalibrator.fit with l2 a non-empty list fits one model
\* per candidate in list order, keeps as calibrator_ the model of the least
\* validation loss, the earliest candidate winning a tie, and leaves in l2
\* that candidate's scalar value.
C1_ListKeepsFirstMinimum ==
    (cls = "Full" /\ call.op = "fit" /\ call.raised = "none"
        /\ call.aux.list) =>
        LET cands  == call.aux.cands
            losses == call.aux.losses
        IN  /\ cands /= <<>>
            /\ call.aux.fitted = cands
            /\ Len(losses) = Len(cands)
            /\ \E w \in DOMAIN cands :
                  /\ \A j \in DOMAIN cands : losses[w] <= losses[j]
                  /\ \A j \in DOMAIN cands : j < w => losses[j] > losses[w]
                  /\ l2 = [list |-> FALSE, v |-> <<cands[w]>>]
                  /\ calibrator_ =
                        <<[l2 |-> cands[w], comp_l2 |-> ctor.comp_l2,
                           weights_0 |-> ctor.weights_init,
                           X |-> call.feats]>>

\* a fit over two different candidates of equal loss kept the first
C1_Witness ==
    /\ cls = "Full"
    /\ call.op = "fit"
    /\ call.raised = "none"
    /\ call.aux.list
    /\ Len(call.aux.cands) = 2
    /\ call.aux.cands[1] /= call.aux.cands[2]
    /\ call.aux.losses[1] = call.aux.losses[2]
    /\ l2.v = <<call.aux.cands[1]>>

\* what predict_proba returns for S in the current state
PredictProbaNow(S) ==
    CASE cls = "Diagonal"  -> DiagPredictProba(Fields, S)
      [] cls = "Dirichlet" -> DirPredictProba(Fields, S)
      [] cls = "Full"      -> FullPredictProba(Fields, S)

\* C2: for every calibrator class, predict(S) returns the probabilities
\* predict_proba(S) returns, not a hard class decision.
C2_PredictReturnsProbabilities ==
    (call.op = "predict" /\ call.raised = "none") =>
        LET pp == PredictProbaNow(call.arg)
        IN  /\ pp.raised = "none"
            /\ call.ret.kind = "proba"
            /\ call.ret.shape = pp.ret.shape
            /\ call.ret.data = pp.ret.data

\* C3: a 1-D array of N scores given to fit or predict_proba is expanded to
\* the N x 2 matrix [1-p, p] before the features are computed, predict_proba
\* returns a length-N array for it, and an N x k array for an N x k input.
C3_BinaryInputExpanded ==
    /\ (call.op \in {"fit", "predict_proba"} /\ call.arg.ndim = 1) =>
          /\ call.feats.ndim = 2
          /\ NRows(call.feats) = NRows(call.arg)
          /\ \A i \in DOMAIN call.arg.data :
                /\ call.feats.data[i][1] =
                      log(clip(Real(4 - call.arg.data[i]), eps, Minus(One, eps)))
                /\ call.feats.data[i][2] =
                      log(clip(Real(call.arg.data[i]), eps, Minus(One, eps)))
    /\ (call.op = "predict_proba" /\ call.raised = "none") =>
          call.ret.shape = IF call.arg.ndim = 1 THEN <<NRows(call.arg)>>
                           ELSE <<NRows(call.arg), NCols(call.arg)>>

\* C4: after any sequence of fit calls the derived state is what a freshly
\* constructed calibrator with the same constructor arguments holds after the
\* last fit call alone.
C4_LastFitReplacesDerivedState ==
    (call.op = "fit" /\ call.raised = "none" /\ fresh /= None) =>
        fresh[1] = Fields

\* C6: after DiagonalDirichletCalibrator.fit the weight matrix W is
\* (k+1) x (k-1), coef_ is the (k-1) x k transpose of its k non-bias rows and
\* intercept_ the transpose of its bias row.
C6_CoefIsTransposeOfWeights ==
    (cls = "Diagonal" /\ weights_ /= None) =>
        LET W == weights_[1]
            k == Len(W) - 1
        IN  /\ k >= 2
            /\ \A i \in 1..(k + 1) : Len(W[i]) = k - 1
            /\ (call.op = "fit" /\ call.raised = "none") => call.aux.k = k
            /\ coef_ /= None
            /\ intercept_ /= None
            /\ Len(coef_[1]) = k - 1
            /\ Len(intercept_[1]) = k - 1
            /\ \A j \in 1..(k - 1) :
                  /\ Len(coef_[1][j]) = k
                  /\ \A i \in 1..k : coef_[1][j][i] = W[i][j]
                  /\ intercept_[1][j] = W[k + 1][j]

\* a fit returned a weight matrix that is not symmetric in its columns
C6_Witness ==
    /\ cls = "Diagonal"
    /\ call.op = "fit"
    /\ call.raised = "none"
    /\ weights_ /= None
    /\ weights_[1][1][1] = 1
    /\ weights_[1][2][2] = 0
    /\ weights_[1][3] = <<-1, 0>>
    /\ weights_[1][4] = <<1, -1>>

\* C7: a call of predict_proba or predict leaves every field of the
\* calibrator unchanged, and a call of predict_proba that follows one on the
\* same input returns the same output.
C7_PredictIsReadOnly ==
    [][/\ (call'.op \in {"predict_proba", "predict"}) => Fields' = Fields
       /\ (/\ call.op = "predict_proba"
           /\ call'.op = "predict_proba"
           /\ SameArr(call.arg, call'.arg))
             => (call'.raised = call.raised /\ call'.ret = call.ret)]_vars

\* predict_proba returned probabilities on a fitted calibrator
C7_Witness ==
    /\ call.op = "predict_proba"
    /\ call.raised = "none"
    /\ call.ret.kind = "proba"
    /\ intercept_ /= None

\* C8: for every k >= 2 the objective that fit hands to the solver reshapes
\* the raveled weights of length (k+1)(k-1) to a (k+1) x (k-1) matrix and its
\* product with the N x (k+1) features is defined.
C8_ObjectiveReshapesToWeightShape ==
    (cls = "Diagonal" /\ call.op = "fit" /\ call.aux.invoked
        /\ NCols(call.arg) = call.aux.k) =>
        /\ call.aux.n0 = (call.aux.k + 1) * (call.aux.k - 1)
        /\ call.aux.wshape = <<call.aux.k + 1, call.aux.k - 1>>
        /\ call.raised = "none"

\* C9: the bound list of fit has one bound per entry of the (k+1) x (k-1)
\* weight matrix in row-major order: [0, inf) on the diagonal of the first
\* k-1 rows, (-inf, 0] on row k-1, (-inf, inf) on the bias row k and [0, 0]
\* elsewhere.
C9_BoundsFollowStructure ==
    (cls = "Diagonal" /\ call.op = "fit" /\ call.aux.invoked) =>
        LET k == call.aux.k
            b == call.aux.bounds
        IN  /\ Len(b) = (k + 1) * (k - 1)
            /\ \A i \in 0..k : \A j \in 0..(k - 2) :
                  b[i * (k - 1) + j + 1] =
                      IF i = j THEN <<"0", "inf">>
                      ELSE IF i = k - 1 THEN <<"-inf", "0">>
                      ELSE IF i = k THEN <<"-inf", "inf">>
                      ELSE <<"0", "0">>

\* fit built the bounds for three classes
C9_Witness ==
    /\ cls = "Diagonal"
    /\ call.op = "fit"
    /\ call.aux.invoked
    /\ call.aux.k = 3
    /\ Len(call.aux.bounds) = 8

(***************************************************************************)
(* SpecPre: the preprocessing passes as functions of one array.            *)
(***************************************************************************)
MaxPreN == 2

PreArrays ==
    Arrays1(MaxPreN) \cup UNION {Arrays2(k, MaxPreN) : k \in 2..MaxK}

PreInit ==
    /\ MainIdle
    /\ GradIdle
    /\ \E c \in Classes, A \in PreArrays :
          pre = [cls |-> c, A |-> A, fit |-> None, predict_proba |-> None,
                 predict |-> None]

PreFit ==
    /\ pre.fit = None
    /\ pre' = [pre EXCEPT !.fit = <<FitPre(pre.cls, pre.A)>>]
    /\ UNCHANGED <<mainvars, g>>

PrePredictProba ==
    /\ pre.predict_proba = None
    /\ pre' = [pre EXCEPT !.predict_proba = <<PredictProbaPre(pre.cls, pre.A)>>]
    /\ UNCHANGED <<mainvars, g>>

PrePredict ==
    /\ pre.predict = None
    /\ pre' = [pre EXCEPT !.predict = <<PredictPre(pre.cls, pre.A)>>]
    /\ UNCHANGED <<mainvars, g>>

PreNext == PreFit \/ PrePredictProba \/ PrePredict

SpecPre == PreInit /\ [][PreNext]_vars

MaxGradN == 2

\* the points of the box the bounds of fit allow: diagonal entries 0 or 1,
\* the entries of the k-th row 0 or -1, the bias entries 0 or ln 2
BoxPoints(k) ==
    {p \in [1..((k + 1) * (k - 1)) -> {-1, 0, 1}] :
        \A t \in DOMAIN p :
            LET i == (t - 1) \div (k - 1)
                j == (t - 1) % (k - 1)
            IN  CASE i = j /\ i < k - 1 -> p[t] \in {0, 1}
                  [] i = k - 1          -> p[t] \in {-1, 0}
                  [] i = k              -> p[t] \in {0, 1}
                  [] OTHER              -> p[t] = 0}

InteriorArrays(k, maxn) ==
    {Arr2(rows) : rows \in Seqs([1..k -> InteriorScoreVals], 1, maxn)}

GradInit ==
    /\ MainIdle
    /\ PreIdle
    /\ \E k \in 2..MaxK :
       \E X \in InteriorArrays(k, MaxGradN) :
       \E y \in [1..NRows(X) -> 0..(k - 1)] :
       \E p \in BoxPoints(k) :
          g = [k |-> k, params |-> p, X |-> DiagFitPre(X).val,
               y |-> label_binarize(y, k), out |-> None]

GradCall ==
    /\ g.out = None
    /\ g' = [g EXCEPT !.out = <<_grad(g.params, g.X, g.y)>>]
    /\ UNCHANGED <<mainvars, pre>>

GradNext == GradCall

SpecGrad == GradInit /\ [][GradNext]_vars

\* the gradient of the multinomial log-loss at W: entry (i,j) is the sum over
\* the samples n of X[n,i] * (predicted_prob[n,j] - actual_indicator[n,j])
MultinomialGrad(W, X, y) ==
    LET k    == NRows(W) - 1
        p    == _calculate_outputs(W, X).val
        N    == NRows(X)
        r(n, j) == RSub(Prob(p.data[n], j),
                        IF y.data[n][j] = 1 THEN ROne ELSE RZero)
    IN  [i \in 1..(k + 1) |->
            [j \in 1..(k - 1) |->
                [a |-> RSum([n \in 1..N |-> RScale(X.data[n][i].a, r(n, j))], N),
                 d |-> RSum([n \in 1..N |-> RScale(X.data[n][i].d, r(n, j))], N),
                 c |-> RSum([n \in 1..N |-> RScale(X.data[n][i].c, r(n, j))], N)]]]

\* C10: the gradient _grad returns has the shape of W and its entry (i,j) is
\* the sum over the samples n of X[n,i] * (predicted_prob[n,j] -
\* actual_indicator[n,j]), raveled row-major.
C10_GradIsMultinomialGradient ==
    (g /= None /\ g.out /= None /\ g.out[1].raised = "none") =>
        LET W == Arr2([i \in 1..(g.k + 1) |->
                     [j \in 1..(g.k - 1) |->
                         g.params[(i - 1) * (g.k - 1) + j]]])
        IN  g.out[1].val.data = ravel(MultinomialGrad(W, g.X, g.y), g.k - 1)

====
